---- MODULE Spec2Model ----
(***************************************************************************)
(* Agent orchestration loop of Aetios-Med                                  *)
(* (backend/app/agent/orchestrator.py, backend/app/agent/tools.py,         *)
(* backend/app/services/llm_service.py).                                   *)
(*                                                                         *)
(* A Python str is a sequence of tokens.  The characters the tool-call     *)
(* scanner and the JSON decoder look at (quote, backslash, braces,         *)
(* brackets, parentheses, colon, comma, blank, newline) are one token      *)
(* each; a run of other characters is one token.  A Python dict is a       *)
(* record whose domain is the set of keys present, so a missing key is a   *)
(* missing field.  A decoded JSON value is a tagged record.                *)
(***************************************************************************)
EXTENDS Integers, Sequences, FiniteSets, TLC

(***************************************************************************)
(* Bounds of the model.                                                    *)
(***************************************************************************)
MaxIter == 2
MaxCalls == 2
MaxTurns == 2
MaxOps == 1
MaxLen == 4
MaxEdits == 1
MaxCoros == 3
MaxLines == 3

(***************************************************************************)
(* A local variable of the code: v is evaluated once and F is applied to   *)
(* its value.                                                              *)
(***************************************************************************)
Let(v, F(_)) == CHOOSE r \in {F(x) : x \in {v}} : TRUE

(***************************************************************************)
(* Text helpers: str.strip, str.split, str.find, slicing.                  *)
(***************************************************************************)
RECURSIVE LStrip(_)
LStrip(s) ==
    IF s # <<>> /\ Head(s) = " " THEN LStrip(Tail(s)) ELSE s

RECURSIVE RStrip(_)
RStrip(s) ==
    IF s # <<>> /\ s[Len(s)] = " " THEN RStrip(SubSeq(s, 1, Len(s) - 1)) ELSE s

Strip(s) == RStrip(LStrip(s))

RECURSIVE SplitFrom(_, _, _)
SplitFrom(s, i, cur) ==
    IF \A k \in i..Len(s) : s[k] # "\n"
    THEN <<cur \o SubSeq(s, i, Len(s))>>
    ELSE LET k == CHOOSE k \in i..Len(s) :
                    s[k] = "\n" /\ \A m \in i..(k - 1) : s[m] # "\n"
         IN <<cur \o SubSeq(s, i, k - 1)>> \o SplitFrom(s, k + 1, <<>>)

SplitLines(s) == SplitFrom(s, 1, <<>>)

RECURSIVE FindFrom(_, _, _)
FindFrom(s, c, i) ==
    IF i > Len(s) THEN 0
    ELSE IF s[i] = c THEN i
    ELSE FindFrom(s, c, i + 1)

Find(s, c) == FindFrom(s, c, 1)

(***************************************************************************)
(* json.loads on a token sequence.  The escape \n is the backslash token   *)
(* followed by the token "n".  A result is [ok, val, pos]; val is          *)
(*   [t |-> "obj", items |-> sequence of <<key, value>>]                   *)
(*   [t |-> "arr", items |-> sequence of values]                           *)
(*   [t |-> "str", s |-> tokens]     [t |-> "lit", s |-> <<token>>]        *)
(***************************************************************************)
JsonLiterals == {"1", "true", "false", "null"}

JsonFail == [ok |-> FALSE, val |-> [t |-> "none"], pos |-> 0]

RECURSIVE SkipWs(_, _)
SkipWs(s, i) ==
    IF i <= Len(s) /\ s[i] \in {" ", "\n"} THEN SkipWs(s, i + 1) ELSE i

\* The number of backslashes that stand, in a row, just before position j.
RECURSIVE BackslashRun(_, _)
BackslashRun(s, j) ==
    IF j > 1 /\ s[j - 1] = "\\" THEN 1 + BackslashRun(s, j - 1) ELSE 0

\* Position j is taken by an escape: it follows an odd run of backslashes.
Escaped(s, j) == BackslashRun(s, j) % 2 = 1

\* An unescaped quote at position j.
ClosingQuote(s, j) == s[j] = "\"" /\ ~Escaped(s, j)

\* The string that opens before position i: up to the first quote that is
\* not escaped.  Only the escapes \" \\ and \n are known; a raw newline is
\* a control character, which json.loads rejects.
ScanString(s, i) ==
    Let(CHOOSE j \in i..(Len(s) + 1) :
            /\ j = Len(s) + 1 \/ ClosingQuote(s, j)
            /\ \A m \in i..(j - 1) : ~ClosingQuote(s, m),
        LAMBDA end :
    IF end = Len(s) + 1 THEN JsonFail
    ELSE IF \A j \in i..(end - 1) : s[j] \notin {"\\", "\n"}
    THEN [ok |-> TRUE, val |-> [t |-> "str", s |-> SubSeq(s, i, end - 1)],
          pos |-> end + 1]
    ELSE IF \E j \in i..(end - 1) :
          \/ Escaped(s, j) /\ s[j] \notin {"\"", "\\", "n"}
          \/ ~Escaped(s, j) /\ s[j] = "\n"
    THEN JsonFail
    ELSE Let(SelectSeq([j \in 1..(end - i) |-> i + j - 1],
                       LAMBDA j : Escaped(s, j) \/ s[j] # "\\"),
             LAMBDA kept :
         [ok |-> TRUE,
          val |-> [t |-> "str",
                   s |-> [k \in 1..Len(kept) |->
                            IF Escaped(s, kept[k]) /\ s[kept[k]] = "n"
                            THEN "\n" ELSE s[kept[k]]]],
          pos |-> end + 1]))

RECURSIVE ParseValue(_, _)
RECURSIVE ParseMembers(_, _, _)
RECURSIVE ParseElements(_, _, _)

\* The results of the recursive calls are bound once; the positions
\* derived from them are cheap to compute again.
ParseMembers(s, i, acc) ==
    LET j == SkipWs(s, i) IN
    IF j > Len(s) \/ s[j] # "\"" THEN JsonFail
    ELSE Let(ScanString(s, j + 1), LAMBDA k :
    IF ~k.ok THEN JsonFail
    ELSE LET c == SkipWs(s, k.pos) IN
    IF c > Len(s) \/ s[c] # ":" THEN JsonFail
    ELSE Let(ParseValue(s, c + 1), LAMBDA v :
    IF ~v.ok THEN JsonFail
    ELSE LET e == SkipWs(s, v.pos) IN
    IF e > Len(s) THEN JsonFail
    ELSE IF s[e] = "}" THEN
        [ok |-> TRUE,
         val |-> [t |-> "obj", items |-> Append(acc, <<k.val.s, v.val>>)],
         pos |-> e + 1]
    ELSE IF s[e] = "," THEN ParseMembers(s, e + 1, Append(acc, <<k.val.s, v.val>>))
    ELSE JsonFail))

ParseElements(s, i, acc) ==
    Let(ParseValue(s, i), LAMBDA v :
    IF ~v.ok THEN JsonFail
    ELSE LET e == SkipWs(s, v.pos) IN
    IF e > Len(s) THEN JsonFail
    ELSE IF s[e] = "]" THEN
        [ok |-> TRUE,
         val |-> [t |-> "arr", items |-> Append(acc, v.val)],
         pos |-> e + 1]
    ELSE IF s[e] = "," THEN ParseElements(s, e + 1, Append(acc, v.val))
    ELSE JsonFail)

ParseValue(s, i) ==
    LET j == SkipWs(s, i)
        n == SkipWs(s, j + 1) IN
    IF j > Len(s) THEN JsonFail
    ELSE IF s[j] = "{" THEN
        IF n <= Len(s) /\ s[n] = "}"
        THEN [ok |-> TRUE, val |-> [t |-> "obj", items |-> <<>>], pos |-> n + 1]
        ELSE ParseMembers(s, j + 1, <<>>)
    ELSE IF s[j] = "[" THEN
        IF n <= Len(s) /\ s[n] = "]"
        THEN [ok |-> TRUE, val |-> [t |-> "arr", items |-> <<>>], pos |-> n + 1]
        ELSE ParseElements(s, j + 1, <<>>)
    ELSE IF s[j] = "\"" THEN ScanString(s, j + 1)
    ELSE IF s[j] \in JsonLiterals THEN
        [ok |-> TRUE, val |-> [t |-> "lit", s |-> <<s[j]>>], pos |-> j + 1]
    ELSE JsonFail

json_loads(text) ==
    Let(text, LAMBDA s :
    Let(ParseValue(s, 1), LAMBDA v :
    IF v.ok /\ SkipWs(s, v.pos) > Len(s) THEN v ELSE JsonFail))

(***************************************************************************)
(* json.dumps with the default separators ", " and ": ".  A value that     *)
(* holds an object json cannot encode ([t |-> "pyobj"]) makes it raise     *)
(* TypeError: Encodable is then FALSE.                                     *)
(***************************************************************************)
RECURSIVE Encodable(_)
Encodable(v) ==
    CASE v.t = "obj" -> \A n \in 1..Len(v.items) : Encodable(v.items[n][2])
      [] v.t = "arr" -> \A n \in 1..Len(v.items) : Encodable(v.items[n])
      [] v.t = "str" -> TRUE
      [] v.t = "lit" -> TRUE
      [] OTHER -> FALSE

EscapeOne_raw(c) == <<c>>

EscapeOne(c) ==
    IF c \in {"\"", "\\"} THEN <<"\\", c>>
    ELSE IF c = "\n" THEN <<"\\", "n">>
    ELSE <<c>>

\* Token by token; the sequence is halved to keep the evaluation shallow.
RECURSIVE Escape(_)
Escape(text) ==
    Let(text, LAMBDA s :
    IF \A k \in 1..Len(s) : s[k] \notin {"\"", "\\", "\n"} THEN s
    ELSE IF Len(s) = 1 THEN EscapeOne(s[1])
    ELSE Escape(SubSeq(s, 1, Len(s) \div 2))
         \o Escape(SubSeq(s, Len(s) \div 2 + 1, Len(s))))

DumpString(s) == <<"\"">> \o Escape(s) \o <<"\"">>

RECURSIVE json_dumps(_)
RECURSIVE DumpItems(_, _)
DumpItems(items, isObj) ==
    IF items = <<>> THEN <<>>
    ELSE LET h == Head(items)
             one == IF isObj
                    THEN DumpString(h[1]) \o <<":", " ">> \o json_dumps(h[2])
                    ELSE json_dumps(h)
         IN IF Len(items) = 1 THEN one
            ELSE one \o <<",", " ">> \o DumpItems(Tail(items), isObj)

json_dumps(v) ==
    CASE v.t = "obj" -> <<"{">> \o DumpItems(v.items, TRUE) \o <<"}">>
      [] v.t = "arr" -> <<"[">> \o DumpItems(v.items, FALSE) \o <<"]">>
      [] v.t = "str" -> DumpString(v.s)
      [] v.t = "lit" -> v.s

\* json.dumps(v, indent=2): one item per line, two blanks per level.
RECURSIVE Spaces(_)
Spaces(n) == IF n = 0 THEN <<>> ELSE <<" ">> \o Spaces(n - 1)

NewLine(level) == <<"\n">> \o Spaces(2 * level)

RECURSIVE json_dumps_indent(_, _)
RECURSIVE DumpItemsIndent(_, _, _)
DumpItemsIndent(items, isObj, level) ==
    IF items = <<>> THEN <<>>
    ELSE LET h == Head(items)
             one == IF isObj
                    THEN DumpString(h[1]) \o <<":", " ">>
                         \o json_dumps_indent(h[2], level)
                    ELSE json_dumps_indent(h, level)
         IN IF Len(items) = 1 THEN NewLine(level) \o one
            ELSE NewLine(level) \o one \o <<",">>
                 \o DumpItemsIndent(Tail(items), isObj, level)

json_dumps_indent(v, level) ==
    CASE v.t = "obj" /\ v.items = <<>> -> <<"{", "}">>
      [] v.t = "arr" /\ v.items = <<>> -> <<"[", "]">>
      [] v.t = "obj" /\ v.items # <<>> ->
            <<"{">> \o DumpItemsIndent(v.items, TRUE, level + 1)
            \o NewLine(level) \o <<"}">>
      [] v.t = "arr" /\ v.items # <<>> ->
            <<"[">> \o DumpItemsIndent(v.items, FALSE, level + 1)
            \o NewLine(level) \o <<"]">>
      [] v.t = "str" -> DumpString(v.s)
      [] v.t = "lit" -> v.s

(***************************************************************************)
(* Prompts (agent/prompts.py) and the tool catalogue (agent/tools.py).     *)
(***************************************************************************)
system_prompt == <<"You are Aetios, a medical tutor.">>

TOOL_DEFINITIONS ==
    << [name |-> <<"get_weak_topics">>,
        description |-> <<"Get topics where student confidence is below threshold.">>,
        properties |-> <<"threshold">>],
       [name |-> <<"search_notes">>,
        description |-> <<"Search through student's notes and annotations.">>,
        properties |-> <<"query", "limit">>] >>

TOOL_FUNCTIONS == {<<"get_weak_topics">>, <<"search_notes">>}

\* Keyword parameters of each capability, and those without a default.
ToolParams(name) ==
    IF name = <<"get_weak_topics">> THEN {<<"threshold">>, <<"db">>}
    ELSE {<<"query">>, <<"limit">>, <<"db">>}

ToolRequired(name) ==
    IF name = <<"get_weak_topics">> THEN {} ELSE {<<"query">>}

RECURSIVE JoinNames(_)
JoinNames(ps) ==
    IF ps = <<>> THEN <<>>
    ELSE IF Len(ps) = 1 THEN <<Head(ps)>>
    ELSE <<Head(ps), ",", " ">> \o JoinNames(Tail(ps))

RECURSIVE FormatTools(_)
FormatTools(defs) ==
    IF defs = <<>> THEN <<>>
    ELSE LET func == Head(defs)
             line == <<"- ">> \o func.name \o <<":", " ">> \o func.description \o <<"\n">>
             pars == IF func.properties # <<>>
                     THEN <<"  Parameters: ">> \o JoinNames(func.properties) \o <<"\n">>
                     ELSE <<>>
         IN line \o pars \o FormatTools(Tail(defs))

_format_tools_for_prompt ==
    <<"You have access to the following tools:", "\n", "\n">>
    \o FormatTools(TOOL_DEFINITIONS)
    \o <<"\n", "To use a tool, respond with:", "\n",
         "TOOL_CALL:", " ", "tool_name", "(", "{", "\"", "arg", "\"", ":", " ",
         "\"", "value", "\"", "}", ")", "\n", "\n">>
    \o <<"You can make multiple tool calls by putting each on a new line.", "\n">>
    \o <<"After tool results are provided, continue with your response.", "\n">>

FALLBACK ==
    <<"I apologize, but I need to break this down into smaller steps. Could you please rephrase your question?">>

(***************************************************************************)
(* _parse_tool_calls: the line scanner and the extractor.                  *)
(***************************************************************************)
\* The character loop of lines 227-253; 0 stands for end_idx = -1.
RECURSIVE ScanClose(_, _, _, _, _)
ScanClose_first(s, i, brace_count, in_string, escape_next) ==
    IF \E k \in i..Len(s) : s[k] = ")"
    THEN CHOOSE k \in i..Len(s) :
            s[k] = ")" /\ \A m \in i..(k - 1) : s[m] # ")"
    ELSE 0

ScanClose(s, i, brace_count, in_string, escape_next) ==
    IF i > Len(s) THEN 0
    ELSE IF escape_next THEN ScanClose(s, i + 1, brace_count, in_string, FALSE)
    ELSE IF s[i] = "\\" THEN ScanClose(s, i + 1, brace_count, in_string, TRUE)
    ELSE IF s[i] = "\"" THEN ScanClose(s, i + 1, brace_count, ~in_string, FALSE)
    ELSE IF ~in_string /\ s[i] = "{" THEN ScanClose(s, i + 1, brace_count + 1, in_string, FALSE)
    ELSE IF ~in_string /\ s[i] = "}" THEN ScanClose(s, i + 1, brace_count - 1, in_string, FALSE)
    ELSE IF ~in_string /\ s[i] = ")" /\ brace_count = 0 THEN i
    ELSE ScanClose(s, i + 1, brace_count, in_string, FALSE)

ToolCallId_zero(n) == <<"call_", "0">>

ToolCallId(n) == <<"call_", ToString(n)>>

\* One line of the loop body; n is len(tool_calls) when the line is reached.
\* call_str and end_idx are the locals the body leaves behind.
ParseLine(raw, n) ==
    Let(Strip(raw), LAMBDA line :
    IF line = <<>> \/ Head(line) # "TOOL_CALL:"
    THEN [ok |-> FALSE, call_str |-> <<>>, end_idx |-> 0]
    ELSE Let(Strip(Tail(line)), LAMBDA call_str :
    Let(Find(call_str, "("), LAMBDA paren_idx :
    IF paren_idx = 0 THEN [ok |-> FALSE, call_str |-> call_str, end_idx |-> 0]
    ELSE Let(Strip(SubSeq(call_str, 1, paren_idx - 1)), LAMBDA tool_name :
    Let(paren_idx + 1, LAMBDA args_start :
    Let(ScanClose(call_str, args_start, 0, FALSE, FALSE), LAMBDA end_idx :
    IF end_idx = 0 THEN [ok |-> FALSE, call_str |-> call_str, end_idx |-> 0]
    ELSE Let(Strip(SubSeq(call_str, args_start, end_idx - 1)), LAMBDA args_str :
    Let(IF args_str # <<>> THEN json_loads(args_str)
        ELSE [ok |-> TRUE, val |-> [t |-> "obj", items |-> <<>>], pos |-> 0],
        LAMBDA arguments :
    IF ~arguments.ok
    THEN [ok |-> FALSE, call_str |-> call_str, end_idx |-> end_idx]
    ELSE [ok |-> TRUE, call_str |-> call_str, end_idx |-> end_idx,
          call |-> [id |-> ToolCallId(n),
                    type |-> <<"function">>,
                    function |-> [name |-> tool_name,
                                  arguments |-> json_dumps(arguments.val)]]]))))))))

Skipped_reset(tool_calls) == <<>>

\* A line that is not a call, or is malformed (lines 201, 212, 257, 275-278):
\* a warning at most, and the list stays as it is.
Skipped(tool_calls) == tool_calls

RECURSIVE ParseLines(_, _)
RECURSIVE ParseLines_placeholder(_, _)
\* Variant: a malformed TOOL_CALL line yields a call of its own.
ParseLines_placeholder(lines, tool_calls) ==
    IF lines = <<>> THEN tool_calls
    ELSE Let(ParseLine(Head(lines), Len(tool_calls)), LAMBDA r :
         ParseLines_placeholder(Tail(lines),
             IF r.ok THEN Append(tool_calls, r.call)
             ELSE IF Strip(Head(lines)) # <<>> /\ Head(Strip(Head(lines))) = "TOOL_CALL:"
             THEN Append(tool_calls,
                         [id |-> ToolCallId(Len(tool_calls)),
                          type |-> <<"function">>,
                          function |-> [name |-> <<"unparsed">>,
                                        arguments |-> <<"{", "}">>]])
             ELSE tool_calls))

ParseLines(lines, tool_calls) ==
    IF lines = <<>> THEN tool_calls
    ELSE Let(ParseLine(Head(lines), Len(tool_calls)), LAMBDA r :
         ParseLines(Tail(lines), IF r.ok THEN Append(tool_calls, r.call)
                                 ELSE Skipped(tool_calls)))

\* None (no call recognised) is the empty sequence: both are falsy.
_parse_tool_calls(response_text) ==
    Let(SplitLines(response_text), LAMBDA lines : ParseLines(lines, <<>>))

(***************************************************************************)
(* Tool dispatch: execute_tool (tools.py) and _execute_tool_call.          *)
(* A dispatch result is [raised, val, text]: the value returned, or the    *)
(* text of the exception raised.                                           *)
(***************************************************************************)
None == "None"

\* What a capability body can do once its arguments are bound: return a
\* JSON-encodable value, return a value json cannot encode, or raise.
CapabilityOutcomes == {"value", "pyobj", "raise"}

Returned(v) == [raised |-> FALSE, val |-> v, text |-> <<>>]
Raised(text) == [raised |-> TRUE, val |-> [t |-> "none"], text |-> text]

ErrorDict(text) ==
    [t |-> "obj", items |-> << <<(<<"error">>), [t |-> "str", s |-> text]>> >>]

Keys(arguments) == {arguments.items[n][1] : n \in 1..Len(arguments.items)}

\* Variant: the exception text of a failing capability names the db value
\* it was given.
CallCapability_leak(tool_name, arguments, outcome) ==
    IF arguments.t # "obj" THEN
        Raised(<<"argument after ** must be a mapping">>)
    ELSE IF ~(Keys(arguments) \subseteq ToolParams(tool_name)) THEN
        Raised(<<"got an unexpected keyword argument">>)
    ELSE IF ~(ToolRequired(tool_name) \subseteq Keys(arguments)) THEN
        Raised(<<"missing 1 required positional argument">>)
    ELSE IF outcome = "value" THEN Returned([t |-> "arr", items |-> <<>>])
    ELSE IF outcome = "pyobj" THEN
        Returned([t |-> "arr", items |-> <<[t |-> "pyobj"]>>])
    ELSE Raised(<<"capability failed">>
                \o Let(SelectSeq(arguments.items,
                                 LAMBDA it : it[1] = <<"db">> /\ it[2].t = "pyobj"),
                       LAMBDA given : IF given = <<>> THEN <<>>
                                      ELSE given[1][2].s))

\* func(**arguments): the argument binding, then the capability body.
CallCapability(tool_name, arguments, outcome) ==
    IF arguments.t # "obj" THEN
        Raised(<<"argument after ** must be a mapping">>)
    ELSE IF ~(Keys(arguments) \subseteq ToolParams(tool_name)) THEN
        Raised(<<"got an unexpected keyword argument">>)
    ELSE IF ~(ToolRequired(tool_name) \subseteq Keys(arguments)) THEN
        Raised(<<"missing 1 required positional argument">>)
    ELSE IF outcome = "value" THEN Returned([t |-> "arr", items |-> <<>>])
    ELSE IF outcome = "pyobj" THEN
        Returned([t |-> "arr", items |-> <<[t |-> "pyobj"]>>])
    ELSE Raised(<<"capability failed">>)

execute_tool(tool_name, arguments, outcome) ==
    IF tool_name \notin TOOL_FUNCTIONS
    THEN Raised(<<"Unknown tool: ">> \o tool_name)
    ELSE CallCapability(tool_name, arguments, outcome)

\* Variant: the ambient handle replaces a 'db' entry of the arguments.
InjectDb_override(arguments, db) ==
    IF db = None \/ arguments.t # "obj" THEN Returned(arguments)
    ELSE Returned([arguments EXCEPT
             !.items = SelectSeq(@, LAMBDA it : it[1] # <<"db">>)
                       \o << <<(<<"db">>), [t |-> "pyobj", s |-> <<db>>]>> >>])

\* 'db' not in arguments / arguments['db'] = db, by the type of arguments.
InjectDb(arguments, db) ==
    IF db = None THEN Returned(arguments)
    ELSE IF arguments.t = "obj" THEN
        IF <<"db">> \in Keys(arguments) THEN Returned(arguments)
        ELSE Returned([arguments EXCEPT
                 !.items = Append(@, <<(<<"db">>), [t |-> "pyobj", s |-> <<db>>]>>)])
    ELSE IF arguments.t = "arr" THEN
        IF \E n \in 1..Len(arguments.items) :
               /\ arguments.items[n].t = "str"
               /\ arguments.items[n].s = <<"db">>
        THEN Returned(arguments)
        ELSE Raised(<<"list indices must be integers or slices, not str">>)
    ELSE IF arguments.t = "str" THEN
        IF \E n \in 1..Len(arguments.s) : arguments.s[n] = "db"
        THEN Returned(arguments)
        ELSE Raised(<<"'str' object does not support item assignment">>)
    ELSE Raised(<<"argument is not iterable">>)

\* Variant: the exception is not caught.
CatchAll_propagates(r) == r

\* try: ... except Exception as e: return {"error": str(e)}
CatchAll(r) == IF r.raised THEN Returned(ErrorDict(r.text)) ELSE r

\* The body of the try block, lines 298-304.
TryBody(tool_call, db, outcome) ==
    Let(tool_call.function.name, LAMBDA tool_name :
    Let(json_loads(tool_call.function.arguments), LAMBDA decoded :
    IF ~decoded.ok THEN Raised(<<"Expecting value">>)
    ELSE Let(InjectDb(decoded.val, db), LAMBDA injected :
         IF injected.raised THEN injected
         ELSE execute_tool(tool_name, injected.val, outcome))))

_execute_tool_call(tool_call, db, outcome) ==
    Let(TryBody(tool_call, db, outcome), LAMBDA r : CatchAll(r))

(***************************************************************************)
(* Conversation state: the list self.messages and its operations.          *)
(***************************************************************************)
\* Variant: the list is cleared and no system message is put back.
_initialize_system_prompt_empty == <<>>

_initialize_system_prompt ==
    << [role |-> <<"system">>, content |-> system_prompt] >>

\* Variant: the list is truncated to its first message.
reset_keep_first(msgs) == IF msgs = <<>> THEN <<>> ELSE <<msgs[1]>>

\* reset(self): the new value of self.messages.
reset(msgs) == _initialize_system_prompt

add_user_message(msgs, content) ==
    Append(msgs, [role |-> <<"user">>, content |-> content])

\* Variant: the tool calls are not stored.
add_assistant_message_bare(msgs, content, tool_calls) ==
    Append(msgs, IF content # <<>>
                 THEN [role |-> <<"assistant">>, content |-> content]
                 ELSE [role |-> <<"assistant">>])

\* content and tool_calls are stored only when truthy; None and "" are
\* both given as the empty sequence.
add_assistant_message(msgs, content, tool_calls) ==
    LET m0 == [role |-> <<"assistant">>]
        m1 == IF content # <<>> THEN m0 @@ [content |-> content] ELSE m0
        m2 == IF tool_calls # <<>> THEN m1 @@ [tool_calls |-> tool_calls] ELSE m1
    IN Append(msgs, m2)

\* Variant: the name is stored where the call id belongs.
add_tool_result_swapped(msgs, tool_call_id, tool_name, result) ==
    Append(msgs, [role |-> <<"tool">>,
                  tool_call_id |-> tool_name,
                  name |-> tool_call_id,
                  content |-> json_dumps(result)])

\* Only called with a result json.dumps accepts; the caller raises otherwise.
\* Variant: the id of the call is not stored.
add_tool_result_unnamed(msgs, tool_call_id, tool_name, result) ==
    Append(msgs, [role |-> <<"tool">>,
                  tool_call_id |-> <<>>,
                  name |-> tool_name,
                  content |-> json_dumps(result)])

add_tool_result(msgs, tool_call_id, tool_name, result) ==
    Append(msgs, [role |-> <<"tool">>,
                  tool_call_id |-> tool_call_id,
                  name |-> tool_name,
                  content |-> json_dumps(result)])

\* _call_llm, lines 111-123.  messages.copy() is a shallow copy: the
\* dict at index 0 is shared with self.messages, so the += on its content
\* is seen by both lists.  The pair is <<self.messages, messages_with_tools>>.
WithTools(msgs) ==
    IF msgs # <<>> /\ msgs[1].role = <<"system">>
    THEN LET shared == [msgs[1] EXCEPT
                           !.content = @ \o <<"\n", "\n">> \o _format_tools_for_prompt]
             both == [msgs EXCEPT ![1] = shared]
         IN <<both, both>>
    ELSE <<msgs, <<[role |-> <<"system">>, content |-> _format_tools_for_prompt]>> \o msgs>>

\* while iteration < self.max_iterations
LoopGuard(iter, max) == iter < max

(***************************************************************************)
(* Inputs: user messages, per-call context handles, completion texts.      *)
(***************************************************************************)
UserMessages == {<<"Which topics are weak?">>}

DbHandles == {None, "session"}

CallLine(name, payload) ==
    <<"TOOL_CALL:", " ">> \o name \o <<"(">> \o payload \o <<")">>

T_final == <<"Review", " ", "renal", " ", "physiology.">>
T_empty == <<>>
T_reg == CallLine(<<"get_weak_topics">>, <<>>)
T_search == CallLine(<<"search_notes">>,
                     <<"{", "\"", "query", "\"", ":", " ", "\"", "x", "\"", "}">>)
T_bogus == CallLine(<<"bogus">>, <<"{", "}">>)
T_noname == CallLine(<<>>, <<"{", "}">>)
T_arr == CallLine(<<"bogus">>, <<"[", "1", "]">>)
T_bad == <<"TOOL_CALL:", " ", "get_weak_topics", "(", "{">>
T_db == CallLine(<<"get_weak_topics">>,
                 <<"{", "\"", "db", "\"", ":", " ", "1", "}">>)
T_two == <<"Let me check.", "\n">> \o T_search \o <<"\n">> \o T_bogus
T_skip == T_bad \o <<"\n">> \o T_reg

CompletionTexts ==
    {T_final, T_empty, T_reg, T_bogus, T_noname, T_arr, T_bad, T_db, T_two,
     T_skip}

Timestamps == {<<"t1">>, <<"t2">>}

(***************************************************************************)
(* State.                                                                  *)
(***************************************************************************)
VARIABLES
    messages,        \* AgentOrchestrator.messages
    model,           \* AgentOrchestrator.model
    max_iterations,  \* AgentOrchestrator.max_iterations
    pc,              \* position of the running public operation
    caller,          \* who called process_message: "api" or "stream"
    op,              \* the public operation invoked last
    user_message,    \* argument of the running invocation
    db,              \* argument of the running invocation
    iteration,       \* local counter of process_message
    batch,           \* tool_calls of the current iteration
    idx,             \* position of the for loop over tool_calls
    sent,            \* messages_with_tools handed to the gateway last
    outcome,         \* "none", "running", "returned", "raised"
    result,          \* value returned or text of the exception raised
    chunks,          \* values yielded by stream_message
    exported,        \* <<document>> when the last operation was export_conversation
    caught,          \* text of the exception the last _execute_tool_call caught
    calls,           \* _call_llm invocations of the running invocation
    gw_tool,         \* completions of this invocation that carried tool calls
    base_len,        \* len(messages) when the invocation began
    total_calls,     \* _call_llm invocations so far
    turns,           \* process_message / stream_message invocations so far
    ops,             \* other public operations so far
    parse_text,      \* response_text of the _parse_tool_calls call under study
    parse_lines,     \* lines of it that the for loop has not reached
    parse_calls,     \* its local tool_calls
    parse_call_str,  \* call_str of the loop body run last
    parse_end_idx,   \* end_idx of the loop body run last (0 for -1)
    ppc,             \* position in _parse_tool_calls: "idle", "for", "done"
    history,         \* the list a caller got from get_conversation_history
    aliased,         \* leading entries of it that are the dicts of self.messages
    edits,           \* changes the caller made to that list
    tasks,           \* locals of two process_message coroutines on one agent
    overlapped,      \* the second of them began while the first was suspended
    llm,             \* LLMService.model and LLMService.is_loaded
    executor,        \* jobs submitted to LLMService.executor, oldest first
    coros            \* coroutines that call the LLMService

parseVars == <<parse_text, parse_lines, parse_calls, parse_call_str,
              parse_end_idx, ppc>>

histVars == <<history, aliased, edits>>

taskVars == <<tasks, overlapped>>

llmVars == <<llm, executor, coros>>

agentVarsButHistory == <<messages, model, max_iterations, pc, caller, op,
                         user_message, db, iteration, batch, idx, sent, outcome,
                         result, chunks, exported, caught, calls, gw_tool,
                         base_len, total_calls, turns, ops>>

agentVars == <<messages, model, max_iterations, pc, caller, op,
               user_message, db, iteration, batch, idx, sent, outcome, result,
               chunks, exported, caught, calls, gw_tool, base_len, total_calls,
               turns, ops, histVars, taskVars, llmVars>>

\* What the operations of the orchestrator leave alone, the list held by
\* a caller apart.
restVars == <<parseVars, taskVars, llmVars>>

otherVars == <<restVars, histVars>>

vars == <<agentVars, parseVars>>

convVars == <<messages, model>>
callVars == <<caller, user_message, db, iteration, batch, idx, sent, caught,
              calls, gw_tool, base_len, total_calls, turns>>
endVars == <<pc, outcome, result, chunks>>

\* The coroutines of two requests that use the one agent of the
\* application, and the locals of a coroutine that has not begun.
Tasks == {1, 2}

IdleTask == [pc |-> "idle", db |-> None, iteration |-> 0, batch |-> <<>>,
             idx |-> 0, sent |-> <<>>]

\* The coroutines that call the LLMService, and one that has not begun.
Coros == 1..MaxCoros

IdleCoro == [pc |-> "idle", op |-> "none", job |-> "none", invoked |-> None,
             outcome |-> "none"]

InitOrchestrator ==
    /\ messages = _initialize_system_prompt
    /\ model = <<"llama-3">>
    /\ max_iterations \in 0..MaxIter
    /\ pc = "idle"
    /\ caller = "api"
    /\ op = "__init__"
    /\ user_message = <<>>
    /\ db = None
    /\ iteration = 0
    /\ batch = <<>>
    /\ idx = 0
    /\ sent = <<>>
    /\ outcome = "none"
    /\ result = <<>>
    /\ chunks = <<>>
    /\ exported = <<>>
    /\ caught = <<>>
    /\ calls = 0
    /\ gw_tool = 0
    /\ base_len = 0
    /\ total_calls = 0
    /\ turns = 0
    /\ ops = 0
    /\ history = <<>>
    /\ aliased = 0
    /\ edits = 0
    /\ tasks = [i \in Tasks |-> IdleTask]
    /\ overlapped = FALSE
    /\ llm = [model |-> None, is_loaded |-> FALSE]
    /\ executor = <<>>
    /\ coros = [c \in Coros |-> IdleCoro]

Init ==
    /\ InitOrchestrator
    /\ parse_text = <<>>
    /\ parse_lines = <<>>
    /\ parse_calls = <<>>
    /\ parse_call_str = <<>>
    /\ parse_end_idx = 0
    /\ ppc = "idle"

(***************************************************************************)
(* How process_message ends: a return goes to the caller (the API caller,  *)
(* or stream_message, which then yields it); an exception leaves both.     *)
(***************************************************************************)
Return(val) ==
    /\ result' = val
    /\ IF caller = "stream"
       THEN pc' = "stream_yield" /\ outcome' = outcome
       ELSE pc' = "idle" /\ outcome' = "returned"

Raise_swallowed(text) ==
    /\ result' = <<>>
    /\ pc' = "idle"
    /\ outcome' = "returned"

Raise(text) ==
    /\ result' = text
    /\ pc' = "idle"
    /\ outcome' = "raised"

\* MaxTurns bounds the budgeted public calls of a session: invocations of
\* process_message / stream_message and the counted operations together.
CanStart ==
    /\ pc = "idle"
    /\ turns + ops < MaxTurns
    /\ total_calls + max_iterations <= MaxCalls

\* Variant: the counter of the previous invocation is kept.
Enter_carried(who, name, msgs, um, d) ==
    /\ messages' = msgs
    /\ caller' = who
    /\ op' = name
    /\ user_message' = um
    /\ db' = d
    /\ iteration' = iteration
    /\ batch' = <<>>
    /\ idx' = 0
    /\ calls' = 0
    /\ gw_tool' = 0
    /\ base_len' = Len(messages)
    /\ turns' = turns + 1
    /\ chunks' = <<>>
    /\ result' = <<>>
    /\ exported' = <<>>
    /\ caught' = <<>>
    /\ UNCHANGED <<model, max_iterations, otherVars, sent, total_calls, ops>>

Enter(who, name, msgs, um, d) ==
    /\ messages' = msgs
    /\ caller' = who
    /\ op' = name
    /\ user_message' = um
    /\ db' = d
    /\ iteration' = 0
    /\ batch' = <<>>
    /\ idx' = 0
    /\ calls' = 0
    /\ gw_tool' = 0
    /\ base_len' = Len(messages)
    /\ turns' = turns + 1
    /\ chunks' = <<>>
    /\ result' = <<>>
    /\ exported' = <<>>
    /\ caught' = <<>>
    /\ UNCHANGED <<model, max_iterations, otherVars, sent, total_calls, ops>>

(***************************************************************************)
(* process_message                                                         *)
(***************************************************************************)
\* Line 320-322: the call, up to the first test of the while condition.
process_message ==
    \E um \in UserMessages, d \in DbHandles :
        /\ CanStart
        /\ Enter("api", "process_message", add_user_message(messages, um), um, d)
        /\ pc' = "loop"
        /\ outcome' = "running"

\* Lines 323-327 and _call_llm up to the await of llm_service.complete.
\* llm_service.is_loaded is the state of the LLM service, which the
\* application loads and unloads on its own: either value can be read.
CallLLM ==
    \E is_loaded \in BOOLEAN :
    /\ pc = "loop"
    /\ LoopGuard(iteration, max_iterations)
    /\ iteration' = iteration + 1
    /\ calls' = calls + 1
    /\ total_calls' = total_calls + 1
    /\ IF ~is_loaded
       THEN /\ Raise(<<"LLM model not loaded. Call await llm_service.load_model() first.">>)
            /\ UNCHANGED <<messages, sent, history>>
       ELSE /\ messages' = WithTools(messages)[1]
            /\ sent' = WithTools(messages)[2]
            /\ history' = IF aliased >= 1
                          THEN [history EXCEPT ![1] = WithTools(messages)[1][1]]
                          ELSE history
            /\ pc' = "await_llm"
            /\ UNCHANGED <<outcome, result>>
    /\ UNCHANGED <<model, max_iterations, restVars, aliased, edits, caller, op, user_message, db,
                   batch, idx, chunks, exported, caught, gw_tool, base_len,
                   turns, ops>>

\* Lines 358-360: the while condition is false.
MaxIterationsReached ==
    /\ pc = "loop"
    /\ ~LoopGuard(iteration, max_iterations)
    /\ Return(FALLBACK)
    /\ UNCHANGED <<convVars, callVars, max_iterations, otherVars, op, chunks,
                   exported, ops>>

\* llm_service.complete returns; lines 135-158 and 328-340 / 353-356.
LLMComplete ==
    \E response_text \in CompletionTexts :
        /\ pc = "await_llm"
        /\ \E tool_calls \in {_parse_tool_calls(response_text)} :
           IF tool_calls # <<>>
           THEN /\ messages' = add_assistant_message(messages, <<>>, tool_calls)
                /\ batch' = tool_calls
                /\ idx' = 1
                /\ gw_tool' = gw_tool + 1
                /\ pc' = "dispatch"
                /\ UNCHANGED <<outcome, result>>
           ELSE /\ messages' = add_assistant_message(messages, response_text, <<>>)
                /\ Return(response_text)
                /\ UNCHANGED <<batch, idx, gw_tool>>
        /\ UNCHANGED <<model, max_iterations, otherVars, caller, op, user_message, db,
                       iteration, sent, chunks, exported, caught, calls, base_len,
                       total_calls, turns, ops>>

\* llm_service.complete raises; lines 159-161.
LLMError ==
    /\ pc = "await_llm"
    /\ Raise(<<"completion failed">>)
    /\ UNCHANGED <<convVars, callVars, max_iterations, otherVars, op, chunks,
                   exported, ops>>

\* One pass of the for loop, lines 343-348.
ExecuteToolCall ==
    \E o \in CapabilityOutcomes :
        /\ pc = "dispatch"
        /\ \E tool_call \in {batch[idx]} :
           \E body \in {TryBody(tool_call, db, o)},
              r \in {_execute_tool_call(tool_call, db, o)} :
              /\ caught' = IF body.raised THEN body.text ELSE <<>>
              /\ IF ~r.raised /\ Encodable(r.val)
                 THEN /\ messages' = add_tool_result(messages, tool_call.id,
                                                     tool_call.function.name, r.val)
                      /\ idx' = idx + 1
                      /\ pc' = IF idx = Len(batch) THEN "loop" ELSE "dispatch"
                      /\ UNCHANGED <<outcome, result>>
                 ELSE /\ Raise(IF r.raised THEN r.text
                               ELSE <<"Object is not JSON serializable">>)
                      /\ UNCHANGED <<messages, idx>>
        /\ UNCHANGED <<model, max_iterations, otherVars, caller, op, user_message, db,
                       iteration, batch, sent, chunks, exported, calls, gw_tool,
                       base_len, total_calls, turns, ops>>

(***************************************************************************)
(* stream_message                                                          *)
(***************************************************************************)
\* Lines 373-381: the generator body up to the first await.  When the
\* while condition holds it calls process_message, which appends the user
\* message itself.
stream_message ==
    \E um \in UserMessages, d \in DbHandles :
        /\ CanStart
        /\ outcome' = "running"
        /\ IF LoopGuard(0, max_iterations)
           THEN /\ Enter("stream", "stream_message",
                         add_user_message(add_user_message(messages, um), um), um, d)
                /\ pc' = "loop"
           ELSE /\ Enter("stream", "stream_message",
                         add_user_message(messages, um), um, d)
                /\ pc' = "stream_end"

\* Lines 382-383: yield response; break.
StreamYield ==
    /\ pc = "stream_yield"
    /\ chunks' = Append(chunks, result)
    /\ pc' = "stream_end"
    /\ UNCHANGED <<convVars, callVars, max_iterations, otherVars, op, outcome,
                   result, exported, ops>>

\* The generator is exhausted.
StreamEnd ==
    /\ pc = "stream_end"
    /\ pc' = "idle"
    /\ outcome' = "returned"
    /\ UNCHANGED <<convVars, callVars, max_iterations, otherVars, op, result,
                   chunks, exported, ops>>

(***************************************************************************)
(* The other public operations of the orchestrator.  They are called       *)
(* between, not during, process_message / stream_message invocations.      *)
(***************************************************************************)
Public(name) ==
    /\ pc = "idle"
    /\ op' = name
    /\ UNCHANGED <<max_iterations, restVars, pc, caller, user_message, db,
                   iteration, batch, idx, sent, outcome, result, chunks, caught,
                   calls, gw_tool, base_len, total_calls, turns>>

Counted(name) ==
    /\ ops < MaxOps
    /\ turns + ops < MaxTurns
    /\ ops' = ops + 1
    /\ Public(name)
    /\ UNCHANGED histVars

\* Lines 385-387.
Reset ==
    /\ Public("reset")
    /\ messages' = reset(messages)
    /\ exported' = <<>>
    /\ aliased' = 0
    /\ UNCHANGED <<model, ops, history, edits>>

AddUserMessage ==
    \E content \in UserMessages :
        /\ Counted("add_user_message")
        /\ messages' = add_user_message(messages, content)
        /\ exported' = <<>>
        /\ UNCHANGED model

AssistantContents == {<<>>, T_final}
AssistantToolCalls == {<<>>, _parse_tool_calls(T_reg)}

AddAssistantMessage ==
    \E content \in AssistantContents, tool_calls \in AssistantToolCalls :
        /\ Counted("add_assistant_message")
        /\ messages' = add_assistant_message(messages, content, tool_calls)
        /\ exported' = <<>>
        /\ UNCHANGED model

ToolResults == {[t |-> "arr", items |-> <<>>], [t |-> "arr", items |-> <<[t |-> "pyobj"]>>]}

\* json.dumps raises on a result it cannot encode and nothing is appended.
AddToolResult ==
    \E id \in {ToolCallId(7)}, r \in ToolResults :
        /\ Counted("add_tool_result")
        /\ messages' = IF Encodable(r)
                       THEN add_tool_result(messages, id, <<"get_weak_topics">>, r)
                       ELSE messages
        /\ exported' = <<>>
        /\ UNCHANGED model

(***************************************************************************)
(* export_conversation / load_conversation.  The messages of the model are *)
(* the Python objects; JStr .. DocumentToJson give the JSON value that     *)
(* json.dumps walks (keys in insertion order), FromJson the Python object  *)
(* that json.loads builds from a JSON value.                               *)
(***************************************************************************)
JStr(s) == [t |-> "str", s |-> s]

ToolCallToJson(tc) ==
    [t |-> "obj",
     items |-> << <<(<<"id">>), JStr(tc.id)>>,
                  <<(<<"type">>), JStr(tc.type)>>,
                  <<(<<"function">>),
                    [t |-> "obj",
                     items |-> << <<(<<"name">>), JStr(tc.function.name)>>,
                                  <<(<<"arguments">>),
                                    JStr(tc.function.arguments)>> >>]>> >>]

RECURSIVE ToolCallsToJson(_)
ToolCallsToJson(tcs) ==
    IF tcs = <<>> THEN <<>>
    ELSE <<ToolCallToJson(Head(tcs))>> \o ToolCallsToJson(Tail(tcs))

\* The keys of a message in the order the add_* operations insert them.
MessageKeys == <<"role", "tool_call_id", "name", "content", "tool_calls">>

MessageToJson(m) ==
    [t |-> "obj",
     items |-> SelectSeq(
        [n \in 1..Len(MessageKeys) |->
            <<(<<MessageKeys[n]>>),
              IF MessageKeys[n] \notin DOMAIN m THEN [t |-> "none"]
              ELSE IF MessageKeys[n] = "tool_calls"
                   THEN [t |-> "arr", items |-> ToolCallsToJson(m.tool_calls)]
                   ELSE JStr(m[MessageKeys[n]])>>],
        LAMBDA item : item[1][1] \in DOMAIN m)]

RECURSIVE MessagesToJson(_)
MessagesToJson(msgs) ==
    IF msgs = <<>> THEN <<>>
    ELSE <<MessageToJson(Head(msgs))>> \o MessagesToJson(Tail(msgs))

DocumentToJson(doc) ==
    [t |-> "obj",
     items |-> << <<(<<"model">>), JStr(doc.model)>>,
                  <<(<<"timestamp">>), JStr(doc.timestamp)>>,
                  <<(<<"messages">>),
                    [t |-> "arr", items |-> MessagesToJson(doc.messages)]>> >>]

\* The last item with key k: a repeated key keeps its last value.
RECURSIVE Lookup(_, _, _)
Lookup(items, k, n) ==
    IF items[n][1] = k THEN items[n][2] ELSE Lookup(items, k, n - 1)

RECURSIVE FromJson(_)
RECURSIVE FromJsonItems(_)
FromJsonItems(items) ==
    IF items = <<>> THEN <<>>
    ELSE <<FromJson(Head(items))>> \o FromJsonItems(Tail(items))

FromJson(v) ==
    CASE v.t = "str" -> v.s
      [] v.t = "lit" -> v.s[1]
      [] v.t = "arr" -> FromJsonItems(v.items)
      [] v.t = "obj" ->
            [k \in {v.items[n][1][1] : n \in 1..Len(v.items)} |->
                FromJson(Lookup(v.items, <<k>>, Len(v.items)))]

\* Lines 405-409: the dict handed to json.dumps.
export_conversation(ts) ==
    [model |-> model, timestamp |-> ts, messages |-> messages]

\* json.dumps(..., indent=2) of that dict: the string returned.
ExportText(doc) == json_dumps_indent(DocumentToJson(doc), 0)

ExportConversation ==
    \E ts \in Timestamps :
        /\ Public("export_conversation")
        /\ exported' = <<export_conversation(ts)>>
        /\ UNCHANGED <<messages, model, ops, histVars>>

load_conversation_merge(conversation_json, cur_model) ==
    Let(FromJson(json_loads(conversation_json).val), LAMBDA data :
        Returned(<<messages \o (IF "messages" \in DOMAIN data
                                THEN data.messages ELSE <<>>),
                   IF "model" \in DOMAIN data THEN data.model ELSE cur_model>>))

\* Lines 418-420: the new <<self.messages, self.model>>, or the exception.
load_conversation(conversation_json, cur_model) ==
    Let(json_loads(conversation_json), LAMBDA decoded :
    IF ~decoded.ok THEN Raised(<<"Expecting value">>)
    ELSE IF decoded.val.t # "obj" THEN Raised(<<"object has no attribute 'get'">>)
    ELSE Let(FromJson(decoded.val), LAMBDA data :
         Returned(<<IF "messages" \in DOMAIN data THEN data.messages ELSE <<>>,
                    IF "model" \in DOMAIN data THEN data.model ELSE cur_model>>)))

\* Texts handed to load_conversation: the export just made, a document
\* without a messages key, a document without a model key.
LoadInputs == {"exported", "no_messages", "no_model"}

Document(d) ==
    CASE d = "exported" -> ExportText(exported[1])
      [] d = "no_messages" ->
            <<"{", "\"", "model", "\"", ":", " ", "\"", "other-model", "\"", "}">>
      [] d = "no_model" ->
            <<"{", "\"", "messages", "\"", ":", " ", "[", "{",
              "\"", "role", "\"", ":", " ", "\"", "user", "\"", ",", " ",
              "\"", "content", "\"", ":", " ", "\"", "restored", "\"",
              "}", "]", "}">>

\* The messages list and the model that each text carries, as written.
DocumentMessages(d) ==
    CASE d = "exported" -> exported[1].messages
      [] d = "no_messages" -> <<>>
      [] d = "no_model" ->
            << [role |-> <<"user">>, content |-> <<"restored">>] >>

DocumentModel(d) ==
    CASE d = "exported" -> exported[1].model
      [] d = "no_messages" -> <<"other-model">>
      [] d = "no_model" -> model

\* The export stays the caller's current document when it is the text
\* that was loaded.
LoadConversation ==
    /\ pc = "idle"
    /\ ops < MaxOps
    /\ turns + ops < MaxTurns
    /\ \E d \in LoadInputs :
        /\ d = "exported" => exported # <<>>
        /\ ops' = ops + 1
        /\ op' = "load_conversation"
        /\ \E r \in {load_conversation(Document(d), model)} :
              IF r.raised
              THEN /\ outcome' = "raised"
                   /\ result' = r.text
                   /\ UNCHANGED <<messages, model, aliased>>
              ELSE /\ outcome' = "returned"
                   /\ result' = <<>>
                   /\ messages' = r.val[1]
                   /\ model' = r.val[2]
                   /\ aliased' = 0
        /\ exported' = IF d = "exported" THEN exported ELSE <<>>
        /\ UNCHANGED <<max_iterations, restVars, history, edits, pc, caller, user_message, db,
                       iteration, batch, idx, sent, chunks, caught,
                       calls, gw_tool, base_len, total_calls, turns>>

(***************************************************************************)
(* get_conversation_history and what its caller does with the list.  The   *)
(* list is a new list object whose entries are the dicts of self.messages. *)
(***************************************************************************)
\* Lines 389-396: return self.messages.copy()
get_conversation_history(msgs) == msgs

GetConversationHistory ==
    /\ ops < MaxOps
    /\ turns + ops < MaxTurns
    /\ ops' = ops + 1
    /\ Public("get_conversation_history")
    /\ history' = get_conversation_history(messages)
    /\ aliased' = Len(messages)
    /\ edits' = 0
    /\ UNCHANGED <<messages, model, exported>>

\* The caller holds a list and may still change it.
CanEdit ==
    /\ pc = "idle"
    /\ edits < MaxEdits
    /\ history # <<>> \/ edits > 0

CallerEntry == [role |-> <<"user">>, content |-> <<"edited">>]

\* m["content"] = value
SetContent(m, value) ==
    [k \in DOMAIN m \cup {"content"} |-> IF k = "content" THEN value ELSE m[k]]

\* history.append(entry): the list is the caller's own.
CallerAppend ==
    /\ CanEdit
    /\ edits' = edits + 1
    /\ history' = Append(history, CallerEntry)
    /\ UNCHANGED <<agentVarsButHistory, aliased, restVars>>

\* history.pop()
CallerPop ==
    /\ CanEdit
    /\ history # <<>>
    /\ edits' = edits + 1
    /\ history' = SubSeq(history, 1, Len(history) - 1)
    /\ aliased' = IF aliased < Len(history) THEN aliased ELSE Len(history) - 1
    /\ UNCHANGED <<agentVarsButHistory, restVars>>

\* history[i]["content"] = value: entry i is a dict; when it is one of the
\* dicts of self.messages the orchestrator sees the new value.
CallerSetField ==
    \E i \in 1..Len(history) :
        /\ CanEdit
        /\ edits' = edits + 1
        /\ history' = [history EXCEPT ![i] = SetContent(@, <<"edited">>)]
        /\ messages' = IF i <= aliased
                       THEN [messages EXCEPT ![i] = SetContent(@, <<"edited">>)]
                       ELSE messages
        /\ UNCHANGED <<model, max_iterations, pc, caller, op, user_message, db,
                       iteration, batch, idx, sent, outcome, result, chunks,
                       exported, caught, calls, gw_tool, base_len, total_calls,
                       turns, ops, aliased, restVars>>

(***************************************************************************)
(* LLMService (services/llm_service.py): load_model, unload and complete   *)
(* run as coroutines on the event loop; the jobs they submit run on the    *)
(* single worker thread of self.executor, in the order submitted.  The     *)
(* lambda of complete reads self.model when the worker runs it.            *)
(***************************************************************************)
Llama == "Llama"

JobOutcomes == {"value", "raise"}

notLLM == <<agentVarsButHistory, histVars, taskVars, parseVars>>

Submit(c, kind) == Append(executor, [kind |-> kind, coro |-> c])

\* Lines 33-52: up to the await of the executor.
LoadModel(c) ==
    \E exists \in BOOLEAN :
        /\ coros[c].pc = "idle"
        /\ IF llm.is_loaded
           THEN /\ coros' = [coros EXCEPT ![c] = [IdleCoro EXCEPT
                                !.pc = "done", !.op = "load_model",
                                !.outcome = "returned"]]
                /\ UNCHANGED executor
           ELSE IF ~exists
           THEN /\ coros' = [coros EXCEPT ![c] = [IdleCoro EXCEPT
                                !.pc = "done", !.op = "load_model",
                                !.outcome = "raised"]]
                /\ UNCHANGED executor
           ELSE /\ coros' = [coros EXCEPT ![c] = [IdleCoro EXCEPT
                                !.pc = "await", !.op = "load_model",
                                !.job = "queued"]]
                /\ executor' = Submit(c, "load")
        /\ UNCHANGED <<llm, notLLM>>

\* Lines 44 and 54: the awaited Llama is assigned, then is_loaded is set.
LoadModelResume(c) ==
    /\ coros[c].pc = "resume"
    /\ coros[c].op = "load_model"
    /\ IF coros[c].outcome = "raised"
       THEN UNCHANGED llm
       ELSE llm' = [model |-> Llama, is_loaded |-> TRUE]
    /\ coros' = [coros EXCEPT ![c].pc = "done",
                              ![c].outcome = IF @ = "raised" THEN @ ELSE "returned"]
    /\ UNCHANGED <<executor, notLLM>>

\* Lines 56-60: no await inside.
Unload(c) ==
    /\ coros[c].pc = "idle"
    /\ llm' = IF llm.model # None
              THEN [model |-> None, is_loaded |-> FALSE]
              ELSE llm
    /\ coros' = [coros EXCEPT ![c] = [IdleCoro EXCEPT
                     !.pc = "done", !.op = "unload", !.outcome = "returned"]]
    /\ UNCHANGED <<executor, notLLM>>

\* Lines 70-87: the is_loaded check, the prompt, the job is submitted.
Complete(c) ==
    /\ coros[c].pc = "idle"
    /\ IF ~llm.is_loaded
       THEN /\ coros' = [coros EXCEPT ![c] = [IdleCoro EXCEPT
                            !.pc = "done", !.op = "complete",
                            !.outcome = "raised"]]
            /\ UNCHANGED executor
       ELSE /\ coros' = [coros EXCEPT ![c] = [IdleCoro EXCEPT
                            !.pc = "await", !.op = "complete",
                            !.job = "queued"]]
            /\ executor' = Submit(c, "infer")
    /\ UNCHANGED <<llm, notLLM>>

\* Line 89, or the exception of the job.
CompleteResume(c) ==
    /\ coros[c].pc = "resume"
    /\ coros[c].op = "complete"
    /\ coros' = [coros EXCEPT ![c].pc = "done",
                              ![c].outcome = IF @ = "raised" THEN @ ELSE "returned"]
    /\ UNCHANGED <<llm, executor, notLLM>>

\* The worker thread runs the oldest job: Llama(...) (lines 46-51) or
\* self.model(prompt, ...) (lines 80-86); calling None raises TypeError.
WorkerRun ==
    \E o \in JobOutcomes :
        /\ executor # <<>>
        /\ executor' = Tail(executor)
        /\ \E job \in {Head(executor)} :
              coros' = [coros EXCEPT
                  ![job.coro].pc = "resume",
                  ![job.coro].job = "ran",
                  ![job.coro].invoked = IF job.kind = "infer" THEN llm.model ELSE @,
                  ![job.coro].outcome =
                      IF job.kind = "infer" /\ llm.model = None THEN "raised"
                      ELSE IF o = "raise" THEN "raised" ELSE "value"]
        /\ UNCHANGED <<llm, notLLM>>

(***************************************************************************)
(* Two process_message coroutines on the same orchestrator.  Each has its  *)
(* own locals; self.messages is shared.  A coroutine is suspended at the   *)
(* await of the gateway and at the await of each tool dispatch, and the    *)
(* event loop may run the other one there.                                 *)
(***************************************************************************)
PairTexts == {T_final, T_reg, T_two}

Running(i) == tasks[i].pc \notin {"idle", "done"}

\* Completion calls of both coroutines together.
PairCalls == tasks[1].iteration + tasks[2].iteration

\* Lines 320-322.
TaskStart(i) ==
    \E um \in UserMessages, d \in DbHandles :
        /\ tasks[i].pc = "idle"
        /\ messages' = add_user_message(messages, um)
        /\ tasks' = [tasks EXCEPT ![i] = [IdleTask EXCEPT !.pc = "loop", !.db = d]]
        /\ overlapped' = (overlapped \/ \E j \in Tasks \ {i} : Running(j))
        /\ UNCHANGED <<model, max_iterations, pc, caller, op, user_message, db,
                       iteration, batch, idx, sent, outcome, result, chunks,
                       exported, caught, calls, gw_tool, base_len, total_calls,
                       turns, ops, histVars, parseVars, llmVars>>

\* Lines 323-327 and _call_llm up to the await of llm_service.complete.
TaskCallLLM(i) ==
    \E is_loaded \in BOOLEAN :
        /\ tasks[i].pc = "loop"
        /\ LoopGuard(tasks[i].iteration, max_iterations)
        /\ PairCalls < MaxCalls
        /\ IF ~is_loaded
           THEN /\ tasks' = [tasks EXCEPT ![i].pc = "done",
                                          ![i].iteration = @ + 1]
                /\ UNCHANGED <<messages, history>>
           ELSE /\ messages' = WithTools(messages)[1]
                /\ history' = IF aliased >= 1
                              THEN [history EXCEPT ![1] = WithTools(messages)[1][1]]
                              ELSE history
                /\ tasks' = [tasks EXCEPT ![i].pc = "await_llm",
                                          ![i].iteration = @ + 1,
                                          ![i].sent = WithTools(messages)[2]]
        /\ UNCHANGED <<model, max_iterations, pc, caller, op, user_message, db,
                       iteration, batch, idx, sent, outcome, result, chunks,
                       exported, caught, calls, gw_tool, base_len, total_calls,
                       turns, ops, aliased, edits, overlapped, parseVars, llmVars>>

\* Lines 358-360.
TaskMaxIterations(i) ==
    /\ tasks[i].pc = "loop"
    /\ ~LoopGuard(tasks[i].iteration, max_iterations)
    /\ tasks' = [tasks EXCEPT ![i].pc = "done"]
    /\ UNCHANGED <<agentVarsButHistory, histVars, overlapped, parseVars, llmVars>>

\* llm_service.complete returns; lines 135-158 and 328-340 / 353-356.
TaskComplete(i) ==
    \E response_text \in PairTexts :
        /\ tasks[i].pc = "await_llm"
        /\ \E tool_calls \in {_parse_tool_calls(response_text)} :
           IF tool_calls # <<>>
           THEN /\ messages' = add_assistant_message(messages, <<>>, tool_calls)
                /\ tasks' = [tasks EXCEPT ![i].pc = "dispatch",
                                          ![i].batch = tool_calls,
                                          ![i].idx = 1]
           ELSE /\ messages' = add_assistant_message(messages, response_text, <<>>)
                /\ tasks' = [tasks EXCEPT ![i].pc = "done"]
        /\ UNCHANGED <<model, max_iterations, pc, caller, op, user_message, db,
                       iteration, batch, idx, sent, outcome, result, chunks,
                       exported, caught, calls, gw_tool, base_len, total_calls,
                       turns, ops, histVars, overlapped, parseVars, llmVars>>

\* llm_service.complete raises; lines 159-161.
TaskLLMError(i) ==
    /\ tasks[i].pc = "await_llm"
    /\ tasks' = [tasks EXCEPT ![i].pc = "done"]
    /\ UNCHANGED <<agentVarsButHistory, histVars, overlapped, parseVars, llmVars>>

\* One pass of the for loop, lines 343-348.
TaskDispatch(i) ==
    \E o \in CapabilityOutcomes :
        /\ tasks[i].pc = "dispatch"
        /\ \E tool_call \in {tasks[i].batch[tasks[i].idx]} :
           \E r \in {_execute_tool_call(tool_call, tasks[i].db, o)} :
              IF ~r.raised /\ Encodable(r.val)
              THEN /\ messages' = add_tool_result(messages, tool_call.id,
                                                  tool_call.function.name, r.val)
                   /\ tasks' = [tasks EXCEPT
                          ![i].idx = @ + 1,
                          ![i].pc = IF tasks[i].idx = Len(tasks[i].batch)
                                    THEN "loop" ELSE "dispatch"]
              ELSE /\ tasks' = [tasks EXCEPT ![i].pc = "done"]
                   /\ UNCHANGED messages
        /\ UNCHANGED <<model, max_iterations, pc, caller, op, user_message, db,
                       iteration, batch, idx, sent, outcome, result, chunks,
                       exported, caught, calls, gw_tool, base_len, total_calls,
                       turns, ops, histVars, overlapped, parseVars, llmVars>>

(***************************************************************************)
(* LLMService._format_messages (services/llm_service.py): the prompt the   *)
(* repository's gateway builds from the history it is handed.              *)
(***************************************************************************)
SPECIAL_TOKENS ==
    {"<|begin_of_text|>", "<|end_of_text|>", "<|eot_id|>",
     "<|start_header_id|>", "<|end_header_id|>"}

\* Lines 116-121: every special token is removed from the content.
_sanitize_content(content) ==
    SelectSeq(content, LAMBDA c : c \notin SPECIAL_TOKENS)

\* Lines 128-138 for one message: msg["content"] is read for every role
\* (KeyError when the key is absent) and a block is written for the roles
\* system, user and assistant only.
FormatMessage(msg) ==
    IF "content" \notin DOMAIN msg THEN Raised(<<"KeyError: 'content'">>)
    ELSE IF msg.role \notin {<<"system">>, <<"user">>, <<"assistant">>}
    THEN Returned(<<>>)
    ELSE Returned(<<"<|start_header_id|>">> \o msg.role
                  \o <<"<|end_header_id|>", "\n", "\n">>
                  \o (IF msg.role = <<"system">> THEN msg.content
                      ELSE _sanitize_content(msg.content))
                  \o <<"<|eot_id|>">>)

RECURSIVE FormatFrom(_, _)
FormatFrom(msgs, prompt) ==
    IF msgs = <<>> THEN Returned(prompt)
    ELSE Let(FormatMessage(Head(msgs)), LAMBDA block :
         IF block.raised THEN block
         ELSE FormatFrom(Tail(msgs), prompt \o block.val))

\* Lines 123-145.
_format_messages(msgs) ==
    Let(FormatFrom(msgs, <<"<|begin_of_text|>">>), LAMBDA r :
        IF r.raised THEN r
        ELSE Returned(r.val \o <<"<|start_header_id|>", "assistant",
                                 "<|end_header_id|>", "\n", "\n">>))

(***************************************************************************)
(* _parse_tool_calls on its own, one iteration of the for loop at a time,  *)
(* on texts drawn from bounded sets.                                       *)
(***************************************************************************)
\* The character classes the scanner of lines 227-253 tells apart.
Classes == {"\"", "\\", "{", "}", "(", ")", "1"}

Payloads == UNION {[1..n -> Classes] : n \in 0..MaxLen}

\* A candidate line: what follows the opening parenthesis is any payload.
ScanTexts == {<<"TOOL_CALL:", " ", "foo", "(">> \o w : w \in Payloads}

\* TOOL_CALL: foo({"a": "b\"c", "n": {"x":1}})
T_nested ==
    CallLine(<<"foo">>,
             <<"{", "\"", "a", "\"", ":", " ", "\"", "b", "\\", "\"", "c", "\"",
               ",", " ", "\"", "n", "\"", ":", " ",
               "{", "\"", "x", "\"", ":", "1", "}", "}">>)

T_noparen == <<"TOOL_CALL:", " ", "get_weak_topics">>
T_badjson == CallLine(<<"search_notes">>, <<"{", "1", "}">>)
T_prose == <<"Let me check.">>

LinePool == {T_search, T_bogus, T_nested, T_noparen, T_bad, T_badjson, T_prose}

RECURSIVE JoinLines(_)
JoinLines(ls) ==
    IF Len(ls) = 1 THEN ls[1]
    ELSE ls[1] \o <<"\n">> \o JoinLines(Tail(ls))

PoolTexts ==
    {JoinLines(ls) : ls \in UNION {[1..n -> LinePool] : n \in 1..MaxLines}}

ParseTexts == ScanTexts \cup PoolTexts \cup {<<>>}

InitParse ==
    /\ InitOrchestrator
    /\ max_iterations = MaxIter
    /\ parse_text \in ParseTexts
    /\ parse_lines = SplitLines(parse_text)
    /\ parse_calls = <<>>
    /\ parse_call_str = <<>>
    /\ parse_end_idx = 0
    /\ ppc = "for"

\* Lines 198-278: one iteration of the for loop.
ParseNextLine ==
    /\ ppc = "for"
    /\ parse_lines # <<>>
    /\ \E r \in {ParseLine(Head(parse_lines), Len(parse_calls))} :
          /\ parse_calls' = IF r.ok THEN Append(parse_calls, r.call)
                            ELSE Skipped(parse_calls)
          /\ parse_call_str' = r.call_str
          /\ parse_end_idx' = r.end_idx
    /\ parse_lines' = Tail(parse_lines)
    /\ UNCHANGED <<agentVars, parse_text, ppc>>

\* Line 280: the loop is over; an empty list is returned as None.
ParseReturn ==
    /\ ppc = "for"
    /\ parse_lines = <<>>
    /\ ppc' = "done"
    /\ UNCHANGED <<agentVars, parse_text, parse_lines, parse_calls,
                   parse_call_str, parse_end_idx>>

(***************************************************************************)
(* Specifications.                                                         *)
(***************************************************************************)
\* The steps inside a process_message / stream_message invocation.
Step ==
    \/ CallLLM
    \/ MaxIterationsReached
    \/ LLMComplete
    \/ LLMError
    \/ ExecuteToolCall
    \/ StreamYield
    \/ StreamEnd

\* process_message, stream_message and reset only.
NextLoop ==
    \/ process_message
    \/ stream_message
    \/ Step
    \/ Reset

\* ... and the append operations.
NextOps ==
    \/ NextLoop
    \/ AddUserMessage
    \/ AddAssistantMessage
    \/ AddToolResult

\* Every operation.
Next ==
    \/ NextOps
    \/ ExportConversation
    \/ LoadConversation

\* process_message and reset with a caller that holds a history list.
NextHistory ==
    \/ process_message
    \/ CallLLM
    \/ MaxIterationsReached
    \/ LLMComplete
    \/ LLMError
    \/ ExecuteToolCall
    \/ Reset
    \/ GetConversationHistory
    \/ CallerAppend
    \/ CallerPop
    \/ CallerSetField

\* The LLMService with its worker thread.
NextLLM ==
    \/ \E c \in Coros :
          \/ LoadModel(c)
          \/ LoadModelResume(c)
          \/ Unload(c)
          \/ Complete(c)
          \/ CompleteResume(c)
    \/ WorkerRun

\* Two interleaved process_message coroutines.
NextPair ==
    \E i \in Tasks :
        \/ TaskStart(i)
        \/ TaskCallLLM(i)
        \/ TaskMaxIterations(i)
        \/ TaskComplete(i)
        \/ TaskLLMError(i)
        \/ TaskDispatch(i)

\* _parse_tool_calls alone.
NextParse ==
    \/ ParseNextLine
    \/ ParseReturn

Spec == Init /\ [][Next]_vars
SpecOps == Init /\ [][NextOps]_vars
SpecLoop == Init /\ [][NextLoop]_vars
SpecParse == InitParse /\ [][NextParse]_vars
SpecHistory == Init /\ [][NextHistory]_vars
SpecPair == Init /\ [][NextPair]_vars
SpecLLM == Init /\ [][NextLLM]_vars
\* A started invocation runs on: the awaited gateway and tools return.
FairLoop == SpecLoop /\ WF_vars(Step)

(***************************************************************************)
(* Properties.                                                             *)
(***************************************************************************)
IsSystem(m) == m.role = <<"system">>
IsUser(m) == m.role = <<"user">>
IsAssistant(m) == m.role = <<"assistant">>
IsTool(m) == m.role = <<"tool">>
HasCalls(m) == IsAssistant(m) /\ "tool_calls" \in DOMAIN m

Finished(name) == pc = "idle" /\ op = name /\ outcome \in {"returned", "raised"}

ToolContent(text) == json_dumps(ErrorDict(text))

\* The invocation ended because the gateway did not return.
GatewayFailed ==
    /\ outcome = "raised"
    /\ result \in {<<"LLM model not loaded. Call await llm_service.load_model() first.">>,
                   <<"completion failed">>}

\* C1: for every max_iterations N >= 0, an invocation makes at most N
\* gateway calls, every started invocation terminates, and a
\* process_message whose gateway calls and tools all returned ends by
\* returning the fallback string (after N calls) or the text of the last
\* completion, which carried no tool call.
C1_BoundedLoop ==
    /\ [](calls <= max_iterations /\ iteration <= max_iterations)
    /\ [](pc # "idle" => <>(pc = "idle"))
    /\ []((Finished("process_message") /\ ~GatewayFailed)
            => /\ outcome = "returned"
               /\ \/ result = FALLBACK /\ calls = max_iterations
                  \/ /\ calls >= 1
                     /\ result \in CompletionTexts
                     /\ _parse_tool_calls(result) = <<>>)

\* The messages seq[from..] are exactly n rounds, each an assistant message
\* with tool_calls followed by one tool message per call, in order.
RECURSIVE IsRounds(_, _, _)
IsRounds(seq, from, n) ==
    IF n = 0 THEN from = Len(seq) + 1
    ELSE /\ from <= Len(seq)
         /\ HasCalls(seq[from])
         /\ "content" \notin DOMAIN seq[from]
         /\ LET k == Len(seq[from].tool_calls) IN
            /\ from + k <= Len(seq)
            /\ \A j \in 1..k :
                  /\ IsTool(seq[from + j])
                  /\ seq[from + j].tool_call_id = seq[from].tool_calls[j].id
            /\ IsRounds(seq, from + k + 1, n - 1)

\* C2: when every gateway call of a process_message with max_iterations
\* N >= 1 returned a tool-call response, the invocation made exactly N
\* calls, returned the fallback string, and appended the user message
\* followed by N completed rounds and nothing else.
C2_AlwaysToolCalls ==
    (Finished("process_message") /\ max_iterations >= 1 /\ gw_tool = calls)
        => /\ calls = max_iterations
           /\ outcome = "returned"
           /\ result = FALLBACK
           /\ IsUser(messages[base_len + 1])
           /\ IsRounds(messages, base_len + 2, max_iterations)

\* C3: outside the for loop over a batch, every assistant message with k
\* tool_calls is followed by exactly k tool messages, whatever the tools did.
BatchComplete(i) ==
    LET k == Len(messages[i].tool_calls) IN
    /\ i + k <= Len(messages)
    /\ \A j \in 1..k : IsTool(messages[i + j])
    /\ i + k + 1 <= Len(messages) => ~IsTool(messages[i + k + 1])

C3_OneToolMessagePerCall ==
    pc # "dispatch"
        => \A i \in 1..Len(messages) : HasCalls(messages[i]) => BatchComplete(i)

\* C4: a dispatch in which the capability raised (also while its arguments
\* were decoded or bound) appends the tool message {"error": <text>} for
\* that call and does not end process_message: the for loop goes on to the
\* next call of the batch, and after the last one to the while loop.
C4_ToolErrorContained ==
    [][(pc = "dispatch" /\ caught' # <<>>)
          => /\ messages' = Append(messages,
                    [role |-> <<"tool">>,
                     tool_call_id |-> batch[idx].id,
                     name |-> batch[idx].function.name,
                     content |-> ToolContent(caught')])
             /\ outcome' = "running"
             /\ idx' = idx + 1
             /\ pc' = IF idx < Len(batch) THEN "dispatch" ELSE "loop"]_vars

\* A capability raised in the first call of a batch of two, the second call
\* was dispatched, and the next completion call was made.
C4_Witness ==
    /\ pc = "await_llm"
    /\ calls = 2
    /\ \E i \in 1..(Len(messages) - 1) :
          /\ IsTool(messages[i])
          /\ messages[i].content = ToolContent(<<"capability failed">>)
          /\ IsTool(messages[i + 1])

\* C5: the dispatch of a call whose name is not in the registry appends
\* the tool message {"error": "Unknown tool: <name>"} and goes on with the
\* batch or, after the last call, with the while loop.
C5_UnknownTool ==
    [][(pc = "dispatch" /\ batch[idx].function.name \notin TOOL_FUNCTIONS)
          => /\ messages' = Append(messages,
                    [role |-> <<"tool">>,
                     tool_call_id |-> batch[idx].id,
                     name |-> batch[idx].function.name,
                     content |-> ToolContent(<<"Unknown tool: ">>
                                             \o batch[idx].function.name)])
             /\ pc' = IF idx < Len(batch) THEN "dispatch" ELSE "loop"]_vars

\* C6: every tool message refers to a ToolCall of the closest assistant
\* message before it, and only tool messages lie between the two.
C6_ToolMessagesFollowTheirCall ==
    \A i \in 1..Len(messages) :
        IsTool(messages[i])
            => \E j \in 1..(i - 1) :
                  /\ HasCalls(messages[j])
                  /\ \A k \in (j + 1)..(i - 1) : IsTool(messages[k])
                  /\ \E c \in 1..Len(messages[j].tool_calls) :
                        messages[j].tool_calls[c].id = messages[i].tool_call_id

\* An invocation that ended by an exception left two sibling tool messages.
C6_Witness ==
    /\ Finished("process_message")
    /\ outcome = "raised"
    /\ \E i \in 2..Len(messages) : IsTool(messages[i]) /\ IsTool(messages[i - 1])

\* C7: the conversation is never empty, starts with a system message and
\* holds no other system message.
C7_OneLeadingSystemMessage ==
    /\ messages # <<>>
    /\ IsSystem(messages[1])
    /\ \A i \in 2..Len(messages) : ~IsSystem(messages[i])

C7_Witness ==
    /\ pc = "idle"
    /\ op = "reset"
    /\ ops > 0
    /\ turns > 0
    /\ sent # <<>>

\* C8: no step of process_message changes or removes a message that is
\* already in the conversation.
C8_AppendOnly ==
    [][op' = "process_message"
          => /\ Len(messages') >= Len(messages)
             /\ \A i \in 1..Len(messages) : messages'[i] = messages[i]]_vars

\* C9: the system message handed to the gateway is the stored system
\* prompt followed by one copy of the tool-catalogue block.
C9_OneCatalogueCopy ==
    sent # <<>>
        => sent[1] = [role |-> <<"system">>,
                      content |-> system_prompt \o <<"\n", "\n">>
                                  \o _format_tools_for_prompt]

\* C10: export_conversation called right after reset returns a document
\* whose messages list is the single system message with the original
\* system prompt.
C10_ResetThenExport ==
    [][(op = "reset" /\ op' = "export_conversation")
          => exported'[1].messages =
                 << [role |-> <<"system">>, content |-> system_prompt] >>]_vars

\* The export follows a reset of a conversation that had been through a
\* gateway call.
C10_Witness ==
    /\ op = "export_conversation"
    /\ exported # <<>>
    /\ exported[1].messages = _initialize_system_prompt
    /\ sent # <<>>
    /\ turns > 0

\* C11: loading the document that export_conversation returned leaves the
\* conversation as it is: the same messages in the same order, each with the
\* same keys and values, and the same model identifier.
C11_ExportLoadRoundTrip ==
    [][(op' = "load_conversation" /\ exported' # <<>>)
          => /\ outcome' = "returned"
             /\ messages' = messages
             /\ model' = model]_vars

\* A conversation with a tool round, whose texts need escaping in the
\* document, has been loaded back from its export.
C11_Witness ==
    /\ op = "load_conversation"
    /\ exported # <<>>
    /\ outcome = "returned"
    /\ \E n \in 1..Len(messages) : HasCalls(messages[n])
    /\ \E n \in 1..Len(messages) : IsTool(messages[n])
    /\ \E k \in 1..Len(messages[1].content) : messages[1].content[k] = "\n"
    /\ turns > 0

\* C12: a load_conversation that returns leaves as conversation exactly the
\* messages list of the document it was given, the empty list when the
\* document has no messages key, whatever the conversation was before; the
\* model becomes the document's, or stays when the document has none.
C12_LoadReplaces ==
    [][(op' = "load_conversation" /\ outcome' = "returned")
          => \E d \in LoadInputs :
                /\ (d = "exported") = (exported' # <<>>)
                /\ messages' = DocumentMessages(d)
                /\ model' = DocumentModel(d)]_vars

\* A document without a messages key was loaded over a conversation that
\* had been through a gateway call: nothing of it is left.
C12_Witness ==
    /\ op = "load_conversation"
    /\ outcome = "returned"
    /\ messages = <<>>
    /\ model = <<"other-model">>
    /\ sent # <<>>
    /\ turns > 0

\* The lines of the pool that are well formed, and the tool each names.
GoodLines == {T_search, T_bogus, T_nested}

PoolName(l) ==
    CASE l = T_search -> <<"search_notes">>
      [] l = T_bogus -> <<"bogus">>
      [] l = T_nested -> <<"foo">>

FromPool(text) ==
    \A n \in 1..Len(SplitLines(text)) : SplitLines(text)[n] \in LinePool

\* The well-formed lines of a text, in textual order.
GoodLinesOf(text) == SelectSeq(SplitLines(text), LAMBDA l : l \in GoodLines)

\* C13: the calls collected so far carry the ids call_0, call_1, ... in
\* sequence, and the k-th call returned is the one of the k-th well-formed
\* line of the text, whatever malformed lines lie between and whatever the
\* tool names are.
C13_SequentialIds ==
    /\ \A n \in 1..Len(parse_calls) :
          parse_calls[n].id = <<"call_", ToString(n - 1)>>
    /\ (ppc = "done" /\ FromPool(parse_text))
          => /\ Len(parse_calls) = Len(GoodLinesOf(parse_text))
             /\ \A n \in 1..Len(parse_calls) :
                   parse_calls[n].function.name
                       = PoolName(GoodLinesOf(parse_text)[n])

\* Two calls of different tools were returned from a text with a skipped
\* malformed line between them.
C13_Witness ==
    /\ ppc = "done"
    /\ SplitLines(parse_text) = <<T_search, T_bad, T_bogus>>
    /\ Len(parse_calls) = 2
    /\ parse_calls[2].id = <<"call_", "1">>

\* The arguments text json.dumps gives for each well-formed line of the pool.
PoolArguments(l) ==
    CASE l = T_search ->
            <<"{", "\"", "query", "\"", ":", " ", "\"", "x", "\"", "}">>
      [] l = T_bogus -> <<"{", "}">>
      [] l = T_nested ->
            <<"{", "\"", "a", "\"", ":", " ", "\"", "b", "\\", "\"", "c", "\"",
              ",", " ", "\"", "n", "\"", ":", " ",
              "{", "\"", "x", "\"", ":", " ", "1", "}", "}">>

\* C14: the extractor goes on to its return from every state of the loop,
\* whatever the text, and what it returns are the calls of the well-formed
\* lines, one each, in textual order: a line with no parenthesis, with an
\* unmatched one or with a payload that is not JSON is left out alone,
\* wherever it stands.
C14_MalformedSkippedAlone ==
    /\ ppc = "for" => ENABLED NextParse
    /\ (ppc = "done" /\ FromPool(parse_text))
          => parse_calls =
                [n \in 1..Len(GoodLinesOf(parse_text)) |->
                    [id |-> <<"call_", ToString(n - 1)>>,
                     type |-> <<"function">>,
                     function |->
                        [name |-> PoolName(GoodLinesOf(parse_text)[n]),
                         arguments |-> PoolArguments(GoodLinesOf(parse_text)[n])]]]

\* One call was returned from a text whose well-formed line stands between
\* a line with a payload that is not JSON and a line with an unmatched
\* parenthesis.
C14_Witness ==
    /\ ppc = "done"
    /\ SplitLines(parse_text) = <<T_badjson, T_search, T_bad>>
    /\ Len(parse_calls) = 1
    /\ parse_calls[1].function.name = <<"search_notes">>

\* The scanner's state at position k of s, scanning from position a, said
\* without the loop.  A character is consumed by a pending escape when an
\* odd run of backslashes stands right before it.
RECURSIVE RunBefore(_, _, _)
RunBefore(s, a, k) ==
    IF k > a /\ s[k - 1] = "\\" THEN 1 + RunBefore(s, a, k - 1) ELSE 0

Consumed(s, a, k) == RunBefore(s, a, k) % 2 = 1

\* in_string when position k is reached: an odd number of quotes, none of
\* them consumed by an escape, stand before it.
InStringAt(s, a, k) ==
    Cardinality({m \in a..(k - 1) : s[m] = "\"" /\ ~Consumed(s, a, m)}) % 2 = 1

BracesBefore(s, a, k, c) ==
    Cardinality({m \in a..(k - 1) :
                    s[m] = c /\ ~Consumed(s, a, m) /\ ~InStringAt(s, a, m)})

\* brace_count when position k is reached.
DepthAt(s, a, k) == BracesBefore(s, a, k, "{") - BracesBefore(s, a, k, "}")

ClosesAt(s, a, k) ==
    /\ s[k] = ")"
    /\ ~Consumed(s, a, k)
    /\ ~InStringAt(s, a, k)
    /\ DepthAt(s, a, k) = 0

\* The first closing position, 0 when there is none.
FirstClose(s, a) ==
    IF \E k \in a..Len(s) : ClosesAt(s, a, k)
    THEN CHOOSE k \in a..Len(s) :
            ClosesAt(s, a, k) /\ \A m \in a..(k - 1) : ~ClosesAt(s, a, m)
    ELSE 0

\* C20: on a candidate line the scanner stops at the first ')' after the
\* opening '(' that is not consumed by a pending escape and is reached
\* with in_string false and brace_count 0, where an escape consumes one
\* character, a quote that is not consumed toggles in_string and braces
\* count outside strings only; a line with no such ')' gives no call, and
\* TOOL_CALL: foo({"a": "b\"c", "n": {"x":1}}) gives one call named foo.
C20_MatchedClose ==
    /\ Find(parse_call_str, "(") # 0
          => parse_end_idx
                = FirstClose(parse_call_str, Find(parse_call_str, "(") + 1)
    /\ (ppc = "done" /\ parse_text \in ScanTexts
           /\ FirstClose(parse_call_str, Find(parse_call_str, "(") + 1) = 0)
          => parse_calls = <<>>
    /\ (ppc = "done" /\ parse_text = T_nested)
          => /\ Len(parse_calls) = 1
             /\ parse_calls[1].function.name = <<"foo">>
             /\ parse_calls[1].function.arguments = PoolArguments(T_nested)

\* The scanner went past a ')' inside a string and stopped at the one
\* after it.
C20_Witness ==
    /\ ppc = "done"
    /\ parse_text = <<"TOOL_CALL:", " ", "foo", "(", "\"", ")", "\"", ")">>
    /\ parse_end_idx = 6
    /\ Len(parse_calls) = 1

\* process_message returns from the gateway's answer: the completion
\* carried no tool call.
FinalAnswerStep ==
    /\ pc = "await_llm"
    /\ pc' \in {"idle", "stream_yield"}
    /\ outcome' # "raised"

\* C15: when the completion text yields no tool call, process_message
\* appends one assistant message whose content is that text, calls the
\* gateway no more and returns that text, the empty text included.
C15_FinalAnswerStored ==
    [][FinalAnswerStep
          => /\ Len(messages') = Len(messages) + 1
             /\ SubSeq(messages', 1, Len(messages)) = messages
             /\ IsAssistant(messages'[Len(messages')])
             /\ "content" \in DOMAIN messages'[Len(messages')]
             /\ messages'[Len(messages')].content = result'
             /\ "tool_calls" \notin DOMAIN messages'[Len(messages')]
             /\ calls' = calls]_vars

\* The gateway did not answer: _call_llm was entered and no completion was
\* awaited, or the awaited completion ended without an assistant message.
GatewayFailureStep ==
    \/ pc = "loop" /\ calls' = calls + 1 /\ pc' # "await_llm"
    \/ pc = "await_llm" /\ messages' = messages

\* The user messages an invocation appends before its first iteration.
UserMessagesAppended ==
    IF op = "stream_message" /\ LoopGuard(0, max_iterations) THEN 2 ELSE 1

\* C16: when the gateway fails at an iteration (model not loaded, or the
\* completion call raises), the invocation ends there by raising: no
\* message is appended or removed at that step, the gateway is not called
\* again, and the conversation keeps the user message and the tool rounds
\* completed before.
C16_GatewayFailure ==
    /\ [][GatewayFailureStep
            => /\ pc' = "idle"
               /\ outcome' = "raised"
               /\ result' \in
                     {<<"LLM model not loaded. Call await llm_service.load_model() first.">>,
                      <<"completion failed">>}
               /\ messages' = messages
               /\ sent' = sent]_vars
    /\ []((pc = "idle" /\ op \in {"process_message", "stream_message"}
            /\ GatewayFailed)
            => /\ \A n \in 1..UserMessagesAppended :
                     /\ IsUser(messages[base_len + n])
                     /\ messages[base_len + n].content = user_message
               /\ IsRounds(messages, base_len + UserMessagesAppended + 1,
                           gw_tool))

\* The completion call raised at the second iteration, after a completed
\* tool round.
C16_Witness ==
    /\ pc = "idle"
    /\ op = "process_message"
    /\ outcome = "raised"
    /\ result = <<"completion failed">>
    /\ gw_tool = 1
    /\ calls = 2
    /\ IsTool(messages[Len(messages)])

\* C17: a started stream_message ends, and one that ends without an
\* exception has yielded one chunk, the final text: the text of a
\* completion that carried no tool call, or the fallback string when the
\* iteration budget is used up, for every max_iterations >= 0.
C17_OneChunk ==
    /\ []((op = "stream_message" /\ pc # "idle") => <>(pc = "idle"))
    /\ []((Finished("stream_message") /\ outcome = "returned")
            => /\ Len(chunks) = 1
               /\ chunks[1] = result
               /\ \/ result = FALLBACK
                  \/ /\ result \in CompletionTexts
                     /\ _parse_tool_calls(result) = <<>>)

\* What an invocation appended to the conversation it started from.
Appended == SubSeq(messages, base_len + 1, Len(messages))

\* C18: stream_message(m) leaves the conversation that process_message(m)
\* leaves from the same start with the same answers: the start, then the
\* user message once, then what the loop appended (assistant and tool
\* messages only).
C18_StreamAsProcess ==
    (pc = "idle" /\ op \in {"process_message", "stream_message"})
        => /\ Appended # <<>>
           /\ Appended[1] = [role |-> <<"user">>, content |-> user_message]
           /\ \A n \in 2..Len(Appended) : ~IsUser(Appended[n])

\* text occurs in prompt as a run of consecutive tokens.
Occurs(text, prompt) ==
    \E k \in 0..(Len(prompt) - Len(text)) :
        SubSeq(prompt, k + 1, k + Len(text)) = text

\* C19: while a completion call is awaited, the history handed to the
\* gateway is the conversation of that moment, in order (behind the
\* catalogue message when the conversation has no leading system message),
\* LLMService renders it to a prompt without an exception, also when it
\* holds an assistant message with tool_calls and no content, and the
\* prompt holds the content of every tool message.
C19_HistoryRendered ==
    pc = "await_llm"
        => /\ \/ sent = messages
              \/ /\ sent # <<>>
                 /\ Tail(sent) = messages
           /\ ~_format_messages(sent).raised
           /\ \A n \in 1..Len(sent) :
                 IsTool(sent[n])
                     => Occurs(sent[n].content, _format_messages(sent).val)

\* C21: the arguments of every call the extractor collects decode to a
\* JSON object, the empty object when the payload is empty or blank; never
\* to an array, a string, a number, a boolean or null.
C21_ArgumentsAreObject ==
    \A n \in 1..Len(parse_calls) :
        /\ json_loads(parse_calls[n].function.arguments).ok
        /\ json_loads(parse_calls[n].function.arguments).val.t = "obj"

\* The conversation ends with the assistant message that carries the batch
\* followed by the tool messages of its first n calls, in order.
EndsWithBatch(n) ==
    /\ Len(messages) > n
    /\ HasCalls(messages[Len(messages) - n])
    /\ messages[Len(messages) - n].tool_calls = batch
    /\ \A j \in 1..n :
          /\ IsTool(messages[Len(messages) - n + j])
          /\ messages[Len(messages) - n + j].tool_call_id
                = <<"call_", ToString(j - 1)>>
          /\ messages[Len(messages) - n + j].name = batch[j].function.name

\* C22: inside an invocation one external call is awaited at a time.
\* While call idx of a batch is dispatched the tool messages of the calls
\* before it, and no other, stand behind the assistant message, with ids
\* call_0, call_1, ... in order; a completion call is awaited only when no
\* batch is under way, and one that follows a batch finds all its tool
\* messages appended.
C22_SequentialDispatch ==
    /\ pc = "dispatch"
          => /\ idx \in 1..Len(batch)
             /\ EndsWithBatch(idx - 1)
    /\ pc \in {"loop", "await_llm"}
          => \/ batch = <<>> /\ idx = 0
             \/ /\ idx = Len(batch) + 1
                /\ EndsWithBatch(Len(batch))

\* The second completion call of an invocation is awaited after a batch
\* of two calls.
C22_Witness ==
    /\ pc = "await_llm"
    /\ calls = 2
    /\ Len(batch) = 2
    /\ IsTool(messages[Len(messages)])
    /\ messages[Len(messages)].tool_call_id = <<"call_", "1">>

\* C23: the iteration counter belongs to the invocation.  Every
\* process_message / stream_message starts with iteration 0 and no
\* completion call made, however the invocation before it ended, and
\* while it has made fewer than max_iterations calls the next one can be
\* made.
C23_BudgetPerCall ==
    /\ [][(pc = "idle" /\ pc' = "loop") => (iteration' = 0 /\ calls' = 0)]_vars
    /\ [](pc = "loop" => calls = iteration)
    /\ []((pc = "loop" /\ calls < max_iterations) => ENABLED CallLLM)

\* A second invocation used its whole budget after the first had used its
\* own up.
C23_Witness ==
    /\ pc = "idle"
    /\ turns = 2
    /\ max_iterations >= 1
    /\ calls = max_iterations
    /\ total_calls = 2 * max_iterations
    /\ result = FALLBACK

\* The user messages of a conversation.
UserCount(msgs) == Len(SelectSeq(msgs, LAMBDA m : IsUser(m)))

\* C24: an invocation of process_message or stream_message appends the
\* user's message once, at its start and before any completion call, and
\* no later step of the invocation appends a user message.
C24_UserMessageOnce ==
    /\ [][(pc = "idle" /\ turns' = turns + 1)
            => messages' = Append(messages, [role |-> <<"user">>,
                                             content |-> user_message'])]_vars
    /\ [][pc # "idle" => UserCount(messages') = UserCount(messages)]_vars

\* json.loads(arguments_str) of a stored call, line 298.
DecodedArguments(tool_call) == json_loads(tool_call.function.arguments)

\* The call reaches a registered capability with a decoded JSON object.
Invokes(tool_call) ==
    /\ tool_call.function.name \in TOOL_FUNCTIONS
    /\ DecodedArguments(tool_call).ok
    /\ DecodedArguments(tool_call).val.t = "obj"

MessageTexts(m) ==
    (IF "content" \in DOMAIN m THEN {m.content} ELSE {})
    \cup (IF "tool_calls" \in DOMAIN m
          THEN UNION {{m.tool_calls[k].function.name,
                       m.tool_calls[k].function.arguments,
                       m.tool_calls[k].id} : k \in 1..Len(m.tool_calls)}
          ELSE {})

\* Some text of the message holds the handle.
RefersTo(m, handle) ==
    \E text \in MessageTexts(m) : \E k \in 1..Len(text) : text[k] = handle

\* What _parse_tool_calls can return for a completion of the gateway.
ExtractorOutputs == {_parse_tool_calls(text) : text \in CompletionTexts}

\* The decoded arguments are a JSON array without the element "db".
ArrayArguments(tool_call) ==
    /\ DecodedArguments(tool_call).ok
    /\ DecodedArguments(tool_call).val.t = "arr"
    /\ InjectDb(DecodedArguments(tool_call).val, "session").raised

\* C26: the db handle of a call is never stored: in every state no text of
\* a conversation message (content, tool-call name, id or arguments string)
\* holds a db handle, and the tool calls stored in an assistant message are
\* exactly a list the extractor returned; and each dispatch acts on the db
\* of the invocation it belongs to (for array arguments the tool message
\* tells which: the failed item assignment with a handle, the unknown-tool
\* error without one).
C26_ContextNotRetained ==
    /\ [](\A n \in 1..Len(messages) :
            /\ \A handle \in DbHandles \ {None} : ~RefersTo(messages[n], handle)
            /\ HasCalls(messages[n]) => messages[n].tool_calls \in ExtractorOutputs)
    /\ [][(pc = "dispatch" /\ ArrayArguments(batch[idx]) /\ pc' # "idle")
            => messages'[Len(messages')].content
                 = ToolContent(IF db = None
                               THEN <<"Unknown tool: ">> \o batch[idx].function.name
                               ELSE <<"list indices must be integers or slices, not str">>)]_vars

\* A second invocation, made without a handle, has dispatched a call after
\* an invocation with a handle dispatched one, and both have ended.
C26_Witness ==
    /\ Finished("process_message")
    /\ db = None
    /\ turns = 2
    /\ \E i, j \in 1..Len(messages) :
          /\ i < j
          /\ IsTool(messages[i])
          /\ messages[i].content
                = ToolContent(<<"list indices must be integers or slices, not str">>)
          /\ IsTool(messages[j])
          /\ messages[j].content = ToolContent(<<"Unknown tool: ", "bogus">>)
          /\ HasCalls(messages[j - 1])
          /\ ArrayArguments(messages[j - 1].tool_calls[1])

\* C27: the list returned by get_conversation_history is isolated from the
\* conversation: no change the caller makes to it (append, pop, or setting
\* a field of one of its messages) changes self.messages, and no step of
\* the orchestrator changes the list the caller holds.
C27_SnapshotIsolated ==
    /\ [][edits' = edits + 1 => messages' = messages]_vars
    /\ [][(edits' = edits /\ ops' = ops) => history' = history]_vars

\* The line is a TOOL_CALL line (line 200).
IsCallLine(raw) == Strip(raw) # <<>> /\ Head(Strip(raw)) = "TOOL_CALL:"

\* The TOOL_CALL lines of a text that the loop body turns into a call.
WellFormedLines(text) ==
    SelectSeq(SplitLines(text), LAMBDA raw : ParseLine(raw, 0).ok)

\* The text has TOOL_CALL lines and the loop body skips every one of them.
AllMalformed(text) ==
    /\ \E n \in 1..Len(SplitLines(text)) : IsCallLine(SplitLines(text)[n])
    /\ WellFormedLines(text) = <<>>

LastMessage == messages[Len(messages)]

Issues(seq, k, n) ==
    /\ HasCalls(seq[k])
    /\ \E c \in 1..Len(seq[k].tool_calls) :
          /\ seq[k].tool_calls[c].id = seq[n].tool_call_id
          /\ seq[k].tool_calls[c].function.name = seq[n].name

\* Tool message n of seq follows the assistant message that issued its
\* call with nothing but tool messages of that batch in between.
FollowsIssuer(seq, n) ==
    \E k \in 1..(n - 1) :
        /\ Issues(seq, k, n)
        /\ n - k <= Len(seq[k].tool_calls)
        /\ \A m \in (k + 1)..(n - 1) : IsTool(seq[m])

\* Every assistant message with calls is followed by the tool messages of
\* its calls, and every tool message follows its issuer.
WellFormed(seq) ==
    /\ \A k \in 1..Len(seq) :
          HasCalls(seq[k])
              => /\ k + Len(seq[k].tool_calls) <= Len(seq)
                 /\ \A j \in 1..Len(seq[k].tool_calls) :
                       /\ IsTool(seq[k + j])
                       /\ seq[k + j].tool_call_id = seq[k].tool_calls[j].id
    /\ \A n \in 1..Len(seq) : IsTool(seq[n]) => FollowsIssuer(seq, n)

\* C29 as stated: with two process_message coroutines interleaved on one
\* orchestrator, every tool message follows the assistant message that
\* issued its call with only sibling tool messages in between, and the
\* history handed to the gateway by either coroutine is well formed.
C29_InterleavingSafe ==
    /\ \A n \in 1..Len(messages) :
          IsTool(messages[n]) => FollowsIssuer(messages, n)
    /\ \A i \in Tasks :
          tasks[i].pc = "await_llm" => WellFormed(tasks[i].sent)

\* C29, amended: the ordering depends on the callers serializing.  Under
\* any interleaving a tool message comes after an assistant message that
\* holds a call with its id and name; that it follows that message with
\* only sibling tool messages in between, in the conversation and in the
\* history handed to the gateway, holds as long as no invocation began
\* while another was suspended.
C29_SerializedOnly ==
    /\ \A n \in 1..Len(messages) :
          IsTool(messages[n]) => \E k \in 1..(n - 1) : Issues(messages, k, n)
    /\ ~overlapped
          => /\ \A n \in 1..Len(messages) :
                   IsTool(messages[n]) => FollowsIssuer(messages, n)
             /\ \A i \in Tasks :
                   tasks[i].pc = "await_llm"
                       => \A n \in 1..Len(tasks[i].sent) :
                              IsTool(tasks[i].sent[n])
                                  => FollowsIssuer(tasks[i].sent, n)

\* Both coroutines have ended after overlapping, and a tool message of one
\* is separated from its assistant message by a message of the other.
C29_Witness ==
    /\ overlapped
    /\ \A i \in Tasks : tasks[i].pc = "done"
    /\ \E n \in 1..Len(messages) :
          /\ IsTool(messages[n])
          /\ ~FollowsIssuer(messages, n)
          /\ \E k \in 1..(n - 1) : Issues(messages, k, n)

\* The worker has run the inference job of coroutine c.
Inferred(c) == coros[c].op = "complete" /\ coros[c].job = "ran"

\* C30: in every state is_loaded implies that model is not None, and the
\* inference job of a complete() that passed its is_loaded check invoked a
\* loaded model, whatever ran between the check and the job.
C30_LoadedModelInvoked ==
    /\ llm.is_loaded => llm.model # None
    /\ \A c \in Coros : Inferred(c) => coros[c].invoked # None
====
